---- MODULE Spec2Model ----
(***************************************************************************)
(* Model of bindbutton (src/bindbutton.cc): the two-event dispatcher of    *)
(* main(), the classification of raw X events (Event::get), the merge of a *)
(* core press with its device press (Event::combine) and the handler       *)
(* (Event::handle) with the per-device held set and device grab.           *)
(*                                                                         *)
(* The X server is the environment: every XNextEvent returns a raw event   *)
(* drawn from RawEvents and every XPending answers either way.  The calls  *)
(* the program makes on the display and the commands it runs are recorded  *)
(* in out (calls of the last step) and log (calls of the current loop      *)
(* iteration).                                                             *)
(***************************************************************************)
EXTENDS Integers, Sequences, FiniteSets, TLC

\* ---------------------------------------------------------------- bounds
NumDevices == 2
MaxButton == 2
MaxTime == 2
MaxArgc == 7

Devs == 1..NumDevices
Buttons == 1..MaxButton
Times == 1..MaxTime

\* ------------------------------------------------------ program constants
\* dev = NULL
NoDev == 0
\* the core ButtonPress event type of X.h
ButtonPress == 4
\* the event type base the server hands out for the button class of device
\* d: one base for all devices, or one base per device
TypeBase(shared, d) == IF shared THEN 10 ELSE 10 + 2 * (d - 1)
\* an event type that is neither ButtonPress nor an XInput button type
OtherTypes == {34}

VARIABLES
    argc,          \* int argc of main
    argv,          \* atoi(argv[3*i+1]) for the triples of the argument list
    exit_status,   \* the argument of exit(), "none" while the process runs
    always_grab,   \* bool always_grab (getenv ALWAYS_GRAB)
    commands,      \* std::map<unsigned int, Commands> commands
    devices,       \* std::list<XiDevice> devices: press, release, num_buttons, status
    grabbed,       \* server side: the last XGrabDevice/XUngrabDevice on d was a grab
    queue,         \* Event queue[2], the first queue_size entries
    queue_size,    \* int queue_size
    i,             \* index of the for loop of main, 1-based
    pc,            \* position of main: "parse_args", "grab_buttons", "pull",
                   \* "handle", "exit"
    raw,           \* the raw event XNextEvent returned in the last step, if any
    window,        \* raw events classified in the current iteration, in order
    out,           \* display calls and commands issued by the last step
    log,           \* display calls and commands issued in the current iteration
    track,         \* per device: the open press/release pair and its ungrabs
    xpending,      \* what XPending answered at the last test of line 290, if asked
    lone,          \* the core press the previous iteration handled alone, if any
    gap            \* get() failed after the one buffered event was pulled; kept
                   \* past the second pull only for a core press and its device
                   \* press, until the first call of handle

vars == <<argc, argv, exit_status, always_grab, commands, devices, grabbed, queue, queue_size, i, pc,
          raw, window, out, log, track, xpending, lone, gap>>

\* ------------------------------------------------------------ call records
\* the time argument CurrentTime of X.h
CurrentTime == 0

Call(fn, d, b, arg, t) ==
    [fn |-> fn, dev |-> d, button |-> b, arg |-> arg, time |-> t]

XGrabDevice(d) == Call("XGrabDevice", d, 0, "GrabModeAsync", CurrentTime)
XUngrabDevice(d) == Call("XUngrabDevice", d, 0, "", CurrentTime)
XGrabButton(b) == Call("XGrabButton", NoDev, b, "GrabModeSync", CurrentTime)
XGrabDeviceButton(d, b) == Call("XGrabDeviceButton", d, b, "GrabModeAsync", CurrentTime)
XTestFakeButtonEvent(b, is_press) ==
    Call("XTestFakeButtonEvent", NoDev, b, IF is_press THEN "True" ELSE "False",
         CurrentTime)
XAllowEvents(mode, t) == Call("XAllowEvents", NoDev, 0, mode, t)
run_cmd(b, cmd) == Call("run_cmd", NoDev, b, cmd, CurrentTime)

\* XiDevice::grab and XiDevice::ungrab: one call on the device
grab(d) == <<XGrabDevice(d)>>
ungrab(d) == <<XUngrabDevice(d)>>

\* the grab state of device d after the calls cs, given it was g before
RECURSIVE ServerGrab(_, _, _)
ServerGrab(g, d, cs) ==
    IF cs = <<>> THEN g
    ELSE LET c == Head(cs) IN
         ServerGrab(IF c.dev = d /\ c.fn = "XGrabDevice" THEN TRUE
                    ELSE IF c.dev = d /\ c.fn = "XUngrabDevice" THEN FALSE
                    ELSE g, d, Tail(cs))

\* number of calls in cs that are the call c
CountCall(cs, c) == Cardinality({k \in 1..Len(cs) : cs[k] = c})
\* number of calls in cs whose mode or command argument is arg
CountArg(cs, arg) == Cardinality({k \in 1..Len(cs) : cs[k].arg = arg})
\* number of calls in cs to one of the functions fns
CountFn(cs, fns) == Cardinality({k \in 1..Len(cs) : cs[k].fn \in fns})

\* ------------------------------------------------------------- raw events
RawEvent(type, d, b, t) == [type |-> type, deviceid |-> d, button |-> b, time |-> t]
NoRaw == RawEvent(0, NoDev, 0, 0)

\* what XNextEvent may return: a core press of a button that has a core grab
\* (a bound button), a press or release of one of its buttons by a registered
\* device (carrying that device's event type), or another event
RawEvents ==
    {RawEvent(ButtonPress, NoDev, b, t) : b \in DOMAIN commands, t \in Times}
    \cup UNION {{RawEvent(ty, d, b, t) : b \in 1..devices[d].num_buttons, t \in Times,
                 ty \in {devices[d].press, devices[d].release}} : d \in Devs}
    \cup {RawEvent(ty, NoDev, 0, 0) : ty \in OtherTypes}

IsCoreRaw(r) == r.type = ButtonPress
IsDeviceRaw(r) == r.deviceid \in Devs

\* ------------------------------------------------------------ Event::get
NoEvent == [is_press |-> FALSE, button |-> 0, dev |-> NoDev, core |-> FALSE, t |-> 0]

\* devices of the list whose press or release type is the event's type
Matching(r) == {j \in Devs : r.type = devices[j].press \/ r.type = devices[j].release}
First(S) == CHOOSE j \in S : \A k \in S : j <= k

\* get that takes every event that is not a device event for a core press
get_UnknownAsCore(r) ==
    IF Matching(r) # {}
    THEN LET j == First(Matching(r)) IN
         [ok |-> TRUE,
          ev |-> [is_press |-> (r.type = devices[j].press), button |-> r.button,
                  dev |-> j, core |-> FALSE, t |-> r.time]]
    ELSE [ok |-> TRUE,
          ev |-> [is_press |-> TRUE, button |-> r.button, dev |-> NoDev,
                  core |-> TRUE, t |-> r.time]]

get(r) ==
    IF r.type = ButtonPress
    THEN [ok |-> TRUE,
          ev |-> [is_press |-> TRUE, button |-> r.button, dev |-> NoDev,
                  core |-> TRUE, t |-> r.time]]
    ELSE IF Matching(r) # {}
    THEN LET j == First(Matching(r)) IN
         [ok |-> TRUE,
          ev |-> [is_press |-> (r.type = devices[j].press), button |-> r.button,
                  dev |-> j, core |-> FALSE, t |-> r.time]]
    ELSE [ok |-> FALSE, ev |-> NoEvent]

\* -------------------------------------------------------- Event::combine
\* combine that only merges when the core event is the first of the two
combine_CoreFirstOnly(a, b) ==
    IF a.is_press = b.is_press /\ a.button = b.button /\ a.t = b.t
       /\ a.core /\ a.dev = NoDev /\ ~b.core /\ b.dev # NoDev
    THEN [ok |-> TRUE, ev |-> [a EXCEPT !.dev = b.dev]]
    ELSE [ok |-> FALSE, ev |-> a]

\* combine whose second branch forgets to copy the core flag
combine_DropCoreFlag(a, b) ==
    IF a.is_press # b.is_press THEN [ok |-> FALSE, ev |-> a]
    ELSE IF a.button # b.button THEN [ok |-> FALSE, ev |-> a]
    ELSE IF a.t # b.t THEN [ok |-> FALSE, ev |-> a]
    ELSE IF a.core /\ a.dev = NoDev /\ ~b.core /\ b.dev # NoDev
    THEN [ok |-> TRUE, ev |-> [a EXCEPT !.dev = b.dev]]
    ELSE IF ~a.core /\ a.dev # NoDev /\ b.core /\ b.dev = NoDev
    THEN [ok |-> TRUE, ev |-> a]
    ELSE [ok |-> FALSE, ev |-> a]

\* combine that also merges two device events
combine_DevicePair(a, b) ==
    IF a.is_press # b.is_press THEN [ok |-> FALSE, ev |-> a]
    ELSE IF a.button # b.button THEN [ok |-> FALSE, ev |-> a]
    ELSE IF a.t # b.t THEN [ok |-> FALSE, ev |-> a]
    ELSE IF a.core /\ a.dev = NoDev /\ ~b.core /\ b.dev # NoDev
    THEN [ok |-> TRUE, ev |-> [a EXCEPT !.dev = b.dev]]
    ELSE IF ~a.core /\ a.dev # NoDev /\ b.core /\ b.dev = NoDev
    THEN [ok |-> TRUE, ev |-> [a EXCEPT !.core = b.core]]
    ELSE IF a.dev # NoDev /\ b.dev # NoDev
    THEN [ok |-> TRUE, ev |-> a]
    ELSE [ok |-> FALSE, ev |-> a]

\* combine that does not compare the timestamps
combine_IgnoreTime(a, b) ==
    IF a.is_press # b.is_press THEN [ok |-> FALSE, ev |-> a]
    ELSE IF a.button # b.button THEN [ok |-> FALSE, ev |-> a]
    ELSE IF a.core /\ a.dev = NoDev /\ ~b.core /\ b.dev # NoDev
    THEN [ok |-> TRUE, ev |-> [a EXCEPT !.dev = b.dev]]
    ELSE IF ~a.core /\ a.dev # NoDev /\ b.core /\ b.dev = NoDev
    THEN [ok |-> TRUE, ev |-> [a EXCEPT !.core = b.core]]
    ELSE [ok |-> FALSE, ev |-> a]

combine(a, b) ==
    IF a.is_press # b.is_press THEN [ok |-> FALSE, ev |-> a]
    ELSE IF a.button # b.button THEN [ok |-> FALSE, ev |-> a]
    ELSE IF a.t # b.t THEN [ok |-> FALSE, ev |-> a]
    ELSE IF a.core /\ a.dev = NoDev /\ ~b.core /\ b.dev # NoDev
    THEN [ok |-> TRUE, ev |-> [a EXCEPT !.dev = b.dev]]
    ELSE IF ~a.core /\ a.dev # NoDev /\ b.core /\ b.dev = NoDev
    THEN [ok |-> TRUE, ev |-> [a EXCEPT !.core = b.core]]
    ELSE [ok |-> FALSE, ev |-> a]

\* --------------------------------------------------------- Event::handle
\* AllowCalls that forgets the replay of a core press without a device
AllowCalls_NoReplay(ev) ==
    IF ev.core /\ ev.is_press /\ ev.dev # NoDev
    THEN <<XTestFakeButtonEvent(ev.button, FALSE), XAllowEvents("AsyncBoth", ev.t)>>
    ELSE <<>>

\* AllowCalls that replays every core press, merged or not
AllowCalls_ReplayMerged(ev) ==
    IF ev.core /\ ev.is_press THEN <<XAllowEvents("ReplayPointer", ev.t)>> ELSE <<>>

\* AllowCalls that releases the hold of a merged press before the fake input
AllowCalls_AllowBeforeFake(ev) ==
    IF ev.core /\ ev.is_press
    THEN IF ev.dev # NoDev
         THEN <<XAllowEvents("AsyncBoth", ev.t), XTestFakeButtonEvent(ev.button, FALSE)>>
         ELSE <<XAllowEvents("ReplayPointer", ev.t)>>
    ELSE <<>>

\* lines 233-240: resolving the synchronous core grab
AllowCalls(ev) ==
    IF ev.core /\ ev.is_press
    THEN IF ev.dev # NoDev
         THEN <<XTestFakeButtonEvent(ev.button, FALSE), XAllowEvents("AsyncBoth", ev.t)>>
         ELSE <<XAllowEvents("ReplayPointer", ev.t)>>
    ELSE <<>>

\* lines 245-247: the command of the button, if it has one
\* CmdCalls that runs the press command for a release too
CmdCalls_AlwaysPress(ev) ==
    IF ev.button \in DOMAIN commands
    THEN <<run_cmd(ev.button, commands[ev.button].press)>>
    ELSE <<>>

CmdCalls(ev) ==
    IF ev.button \in DOMAIN commands
    THEN <<run_cmd(ev.button, IF ev.is_press THEN commands[ev.button].press
                                             ELSE commands[ev.button].release)>>
    ELSE <<>>

\* lines 250-258: the held set of the event's device after the event
HeldUpdate(ev, held) ==
    IF ev.is_press THEN held \cup {ev.button} ELSE held \ {ev.button}

\* GrabCalls that ungrabs on every release, whatever remains held
GrabCalls_UngrabOnAnyRelease(ev, held) ==
    IF ev.is_press
    THEN IF Cardinality(held) = 0 THEN grab(ev.dev) ELSE <<>>
    ELSE ungrab(ev.dev)

\* GrabCalls that never releases the device grab
GrabCalls_NeverUngrab(ev, held) ==
    IF ev.is_press /\ Cardinality(held) = 0 THEN grab(ev.dev) ELSE <<>>

\* GrabCalls that ungrabs only a device that held a button before the release
GrabCalls_UngrabOnlyIfHeld(ev, held) ==
    IF ev.is_press
    THEN IF Cardinality(held) = 0 THEN grab(ev.dev) ELSE <<>>
    ELSE IF Cardinality(held) # 0 /\ Cardinality(held \ {ev.button}) = 0
         THEN ungrab(ev.dev) ELSE <<>>

\* GrabCalls that looks only at the buttons that have a binding
GrabCalls_BoundOnly(ev, held) ==
    IF ev.is_press
    THEN IF ev.button \in DOMAIN commands /\ held \cap DOMAIN commands = {}
         THEN grab(ev.dev) ELSE <<>>
    ELSE IF (held \ {ev.button}) \cap DOMAIN commands = {}
         THEN ungrab(ev.dev) ELSE <<>>

\* lines 250-258: the grab or ungrab of the event's device
GrabCalls(ev, held) ==
    IF ev.is_press
    THEN IF Cardinality(held) = 0 THEN grab(ev.dev) ELSE <<>>
    ELSE IF Cardinality(held \ {ev.button}) = 0 THEN ungrab(ev.dev) ELSE <<>>

\* handle without the always_grab return of lines 248-249
handle_IgnoreAlwaysGrab(ev) ==
    IF ev.dev = NoDev
    THEN [calls |-> AllowCalls(ev), touched |-> FALSE, held |-> {}]
    ELSE [calls |-> AllowCalls(ev) \o CmdCalls(ev)
                       \o GrabCalls(ev, devices[ev.dev].status),
          touched |-> TRUE,
          held |-> HeldUpdate(ev, devices[ev.dev].status)]

\* handle that looks up the command before the dev test of line 242
handle_CmdForCore(ev) ==
    IF ev.dev = NoDev
    THEN [calls |-> AllowCalls(ev) \o CmdCalls(ev), touched |-> FALSE, held |-> {}]
    ELSE IF always_grab
    THEN [calls |-> AllowCalls(ev) \o CmdCalls(ev), touched |-> FALSE, held |-> {}]
    ELSE [calls |-> AllowCalls(ev) \o CmdCalls(ev)
                       \o GrabCalls(ev, devices[ev.dev].status),
          touched |-> TRUE,
          held |-> HeldUpdate(ev, devices[ev.dev].status)]

\* the whole handler: the calls it makes and the held set it leaves on ev.dev
handle(ev) ==
    IF ev.dev = NoDev
    THEN [calls |-> AllowCalls(ev), touched |-> FALSE, held |-> {}]
    ELSE IF always_grab
    THEN [calls |-> AllowCalls(ev) \o CmdCalls(ev), touched |-> FALSE, held |-> {}]
    ELSE [calls |-> AllowCalls(ev) \o CmdCalls(ev)
                       \o GrabCalls(ev, devices[ev.dev].status),
          touched |-> TRUE,
          held |-> HeldUpdate(ev, devices[ev.dev].status)]

\* ----------------------------------------------------------- grab_buttons
RECURSIVE Sorted(_)
\* the elements of the set of integers S in increasing order: the order in
\* which the std::map and the device list are iterated
Sorted(S) ==
    IF S = {} THEN <<>>
    ELSE LET m == First(S) IN <<m>> \o Sorted(S \ {m})


RECURSIVE Flatten(_)
Flatten(ss) == IF ss = <<>> THEN <<>> ELSE Head(ss) \o Flatten(Tail(ss))

\* lines 161-170: the grabs installed for the bound button b
ButtonGrabs(b) ==
    <<XGrabButton(b)>> \o
    (IF always_grab THEN <<>>
     ELSE LET s == Sorted({j \in Devs : ~(b > devices[j].num_buttons)})
          IN [k \in 1..Len(s) |-> XGrabDeviceButton(s[k], b)])

grab_buttons ==
    (IF always_grab THEN [k \in 1..NumDevices |-> XGrabDevice(k)] ELSE <<>>)
    \o (LET s == Sorted(DOMAIN commands)
        IN Flatten([k \in 1..Len(s) |-> ButtonGrabs(s[k])]))

\* ------------------------------------------------------------------ main
\* a pull loop that always goes for a second event
LoopCond_AlwaysSecond(qs, XPending) == qs < 2

\* line 290: the condition of the pull loop
LoopCond(qs, XPending) == qs < 2 /\ (qs = 0 \/ XPending)

\* line 290: XPending is only called with one event buffered (&& and || cut
\* the evaluation short otherwise)
XPendingAnswer(qs, XPending) ==
    IF qs = 1 THEN (IF XPending THEN "true" ELSE "false") ELSE "none"

\* the ungrab calls on d among cs, at most 2 counted
Ungrabs(d, cs) == CountCall(cs, XUngrabDevice(d))
Min(a, b) == IF a < b THEN a ELSE b

NoTrack == [button |-> 0, ungrabs |-> 0]

\* the press/release pair bookkeeping of device d over one handled event ev
\* that made the calls cs: a press on d opens a pair for its button, the
\* release of that button on d closes it; while the pair is open, ungrabs
\* counts the ungrab calls on d since the press (at most 2)
Tracked(tr, d, ev, cs) ==
    IF ev.dev = d /\ ev.is_press
    THEN [button |-> ev.button, ungrabs |-> 0]
    ELSE IF tr.button = 0 THEN tr
    ELSE IF ev.dev = d /\ ~ev.is_press /\ ev.button = tr.button THEN NoTrack
    ELSE [tr EXCEPT !.ungrabs = Min(2, @ + Ungrabs(d, cs))]

NoLone == [button |-> 0, time |-> 0, cmds |-> 0, stage |-> "none"]

\* the iteration that pulled the raw events w and made the calls cs ends: a
\* core press that was its only event is remembered ("open") with the number
\* of commands the iteration ran (at most 2)
LoneAfterReset(w, cs) ==
    IF Len(w) = 1 /\ IsCoreRaw(w[1])
    THEN [button |-> w[1].button, time |-> w[1].time,
          cmds |-> Min(2, CountFn(cs, {"run_cmd"})), stage |-> "open"]
    ELSE NoLone

\* the next iteration pulls its first classified event e: the remembered core
\* press has been split from its device press ("split") if e is the device
\* press of the same button and time, and is forgotten otherwise
LoneAfterPull(l, e) ==
    IF l.stage = "open" /\ ~e.core /\ e.dev # NoDev /\ e.is_press
       /\ e.button = l.button /\ e.t = l.time
    THEN [l EXCEPT !.stage = "split"]
    ELSE NoLone

\* the spec's merge condition on two classified events
CorePlain(e) == e.core /\ e.dev = NoDev
DevicePlain(e) == ~e.core /\ e.dev # NoDev
SpecPair(a, b) ==
    /\ a.is_press = b.is_press /\ a.button = b.button /\ a.t = b.t
    /\ \/ CorePlain(a) /\ DevicePlain(b)
       \/ DevicePlain(a) /\ CorePlain(b)

\* a classified event e is pulled behind the buffered events q: what is
\* remembered of a failed get() between the two (gp) is kept if the two are a
\* core press and its device press
GapAfterPull(gp, q, e) == gp /\ Len(q) = 1 /\ SpecPair(q[1], e)

\* init_xi: the registry.  The server hands every device the event type
\* base of its button class: all devices share one base or each has its
\* own.  The last device has MaxButton buttons, the others a single one.
Registries ==
    {[d \in Devs |-> [press |-> TypeBase(shared, d),
                      release |-> TypeBase(shared, d) + 1,
                      num_buttons |-> IF d = NumDevices THEN MaxButton ELSE 1,
                      status |-> {}]] :
        shared \in BOOLEAN}

\* the binding tables parse_args builds from ArgLists
BindingTables ==
    {[b \in B |-> [press |-> "press", release |-> "release"]] :
        B \in {{1}, {1, 2}}}

\* the words of m triples as atoi reads them: the button of the k-th triple
\* is k, or a word atoi turns into 0
ArgButtons(m) == {a \in [1..m -> 0..m] : \A k \in 1..m : a[k] \in {0, k}}

\* the argument lists: any argc up to MaxArgc with the triples it holds
ArgLists ==
    UNION {{[argc |-> n, argv |-> a] : a \in ArgButtons((n - 1) \div 3)} :
              n \in 1..MaxArgc}

\* lines 132-147: the exit status parse_args ends the process with ("none"
\* if it returns) and the table it has built
parse_args(n, a) ==
    IF (n % 3) # 1 \/ n <= 3
    THEN [exit |-> "EXIT_SUCCESS", commands |-> <<>>]
    ELSE IF \E k \in 1..Len(a) : a[k] = 0
    THEN [exit |-> "EXIT_FAILURE", commands |-> <<>>]
    ELSE [exit |-> "none",
          commands |-> [b \in {a[k] : k \in 1..Len(a)} |->
                           [press |-> "press", release |-> "release"]]]

Init ==
    /\ \E args \in ArgLists : argc = args.argc /\ argv = args.argv
    /\ exit_status = "none"
    /\ always_grab \in BOOLEAN
    /\ commands = <<>>
    /\ devices \in Registries
    /\ grabbed = [d \in Devs |-> FALSE]
    /\ queue = <<>>
    /\ queue_size = 0
    /\ i = 1
    /\ pc = "parse_args"
    /\ gap = FALSE
    /\ raw = NoRaw
    /\ window = <<>>
    /\ out = <<>>
    /\ log = <<>>
    /\ track = [d \in Devs |-> NoTrack]
    /\ xpending = "none"
    /\ lone = NoLone

\* line 282: parse_args fills the table or ends the process
ParseArgs ==
    /\ pc = "parse_args"
    /\ LET p == parse_args(argc, argv)
       IN /\ exit_status' = p.exit
          /\ commands' = p.commands
          /\ pc' = IF p.exit = "none" THEN "grab_buttons" ELSE "exit"
    /\ UNCHANGED <<argc, argv, always_grab, devices, grabbed, queue, queue_size, i,
                   raw, window, out, log, track, xpending, lone, gap>>

\* line 284
GrabButtons ==
    /\ pc = "grab_buttons"
    /\ out' = grab_buttons
    /\ grabbed' = [d \in Devs |-> ServerGrab(grabbed[d], d, grab_buttons)]
    /\ pc' = "pull"
    /\ UNCHANGED <<argc, argv, exit_status, always_grab, commands, devices, queue,
                   queue_size, i, raw, gap,
                   window, log, track, xpending, lone>>

\* MainPull whose pull loop ends when get() fails (break for the continue of
\* line 294)
MainPull_BreakOnUnknown ==
    /\ pc = "pull"
    /\ \E XPending \in BOOLEAN :
          /\ LoopCond(queue_size, XPending)
          /\ xpending' = XPendingAnswer(queue_size, XPending)
    /\ \E r \in RawEvents :
          LET g == get(r)
          IN /\ raw' = r
             /\ IF g.ok
                THEN /\ queue' = Append(queue, g.ev)
                     /\ queue_size' = queue_size + 1
                     /\ window' = Append(window, r)
                     /\ lone' = IF queue_size = 0 THEN LoneAfterPull(lone, g.ev)
                                                  ELSE lone
                     /\ gap' = GapAfterPull(gap, queue, g.ev)
                     /\ pc' = pc
                ELSE /\ gap' = (gap \/ queue_size = 1)
                     /\ pc' = "handle"
                     /\ UNCHANGED <<queue, queue_size, window, lone>>
    /\ out' = <<>>
    /\ UNCHANGED <<argc, argv, exit_status, always_grab, commands,
                   devices, grabbed, i, log, track>>

\* lines 290-295: one pass of the pull loop
MainPull ==
    /\ pc = "pull"
    /\ \E XPending \in BOOLEAN :
          /\ LoopCond(queue_size, XPending)
          /\ xpending' = XPendingAnswer(queue_size, XPending)
    /\ \E r \in RawEvents :
          LET g == get(r)
          IN /\ raw' = r
             /\ IF g.ok
                THEN /\ queue' = Append(queue, g.ev)
                     /\ queue_size' = queue_size + 1
                     /\ window' = Append(window, r)
                     /\ lone' = IF queue_size = 0 THEN LoneAfterPull(lone, g.ev)
                                                  ELSE lone
                     /\ gap' = GapAfterPull(gap, queue, g.ev)
                ELSE /\ gap' = (gap \/ queue_size = 1)
                     /\ UNCHANGED <<queue, queue_size, window, lone>>
    /\ out' = <<>>
    /\ UNCHANGED <<argc, argv, exit_status, always_grab, commands,
                   devices, grabbed, i, pc, log, track>>

\* lines 296-297, once the pull loop has ended
MainCombine ==
    /\ pc = "pull"
    /\ \E XPending \in BOOLEAN :
          /\ ~LoopCond(queue_size, XPending)
          /\ xpending' = XPendingAnswer(queue_size, XPending)
    /\ IF queue_size = 2 /\ combine(queue[1], queue[2]).ok
       THEN /\ queue' = <<combine(queue[1], queue[2]).ev>>
            /\ queue_size' = 1
            /\ gap' = gap
       ELSE /\ gap' = FALSE
            /\ UNCHANGED <<queue, queue_size>>
    /\ i' = 1
    /\ pc' = "handle"
    /\ out' = <<>>
    /\ raw' = NoRaw
    /\ UNCHANGED <<argc, argv, exit_status, always_grab, commands,
                   devices, grabbed, window, log, track, lone>>

\* MainHandle whose for loop stops after queue[0]
MainHandle_FirstOnly ==
    /\ pc = "handle"
    /\ i <= queue_size
    /\ LET ev == queue[i]
           h == handle(ev)
       IN /\ out' = h.calls
          /\ log' = log \o h.calls
          /\ devices' = IF h.touched
                        THEN [devices EXCEPT ![ev.dev].status = h.held]
                        ELSE devices
          /\ grabbed' = [d \in Devs |-> ServerGrab(grabbed[d], d, h.calls)]
          /\ track' = [d \in Devs |->
                          IF always_grab THEN track[d]
                          ELSE Tracked(track[d], d, ev, h.calls)]
    /\ i' = queue_size + 1
    /\ raw' = NoRaw
    /\ gap' = FALSE
    /\ UNCHANGED <<argc, argv, exit_status, always_grab, commands,
                   queue, queue_size, pc, window, xpending,
                   lone>>

\* lines 298-299: queue[i].handle() and the step of the for loop
MainHandle ==
    /\ pc = "handle"
    /\ i <= queue_size
    /\ LET ev == queue[i]
           h == handle(ev)
       IN /\ out' = h.calls
          /\ log' = log \o h.calls
          /\ devices' = IF h.touched
                        THEN [devices EXCEPT ![ev.dev].status = h.held]
                        ELSE devices
          /\ grabbed' = [d \in Devs |-> ServerGrab(grabbed[d], d, h.calls)]
          /\ track' = [d \in Devs |->
                          IF always_grab THEN track[d]
                          ELSE Tracked(track[d], d, ev, h.calls)]
    /\ i' = i + 1
    /\ raw' = NoRaw
    /\ gap' = FALSE
    /\ UNCHANGED <<argc, argv, exit_status, always_grab, commands,
                   queue, queue_size, pc, window, xpending,
                   lone>>

\* line 300, once the for loop has ended: queue_size = 0 and the next
\* iteration starts with nothing pulled and no call made
MainReset ==
    /\ pc = "handle"
    /\ ~(i <= queue_size)
    /\ queue' = <<>>
    /\ queue_size' = 0
    /\ i' = 1
    /\ pc' = "pull"
    /\ raw' = NoRaw
    /\ window' = <<>>
    /\ out' = <<>>
    /\ log' = <<>>
    /\ xpending' = "none"
    /\ lone' = LoneAfterReset(window, log)
    /\ gap' = FALSE
    /\ UNCHANGED <<argc, argv, exit_status, always_grab, commands,
                   devices, grabbed, track>>

Next == ParseArgs \/ GrabButtons \/ MainPull \/ MainCombine \/ MainHandle \/ MainReset

Spec == Init /\ [][Next]_vars

\* ------------------------------------------------------------- type check
TypeOK ==
    /\ always_grab \in BOOLEAN
    /\ pc \notin {"parse_args", "exit"} => commands \in BindingTables
    /\ exit_status \in {"none", "EXIT_SUCCESS", "EXIT_FAILURE"}
    /\ (pc = "exit") <=> (exit_status # "none")
    /\ queue_size \in 0..2
    /\ Len(queue) = queue_size
    /\ pc \in {"parse_args", "grab_buttons", "pull", "handle", "exit"}
    /\ \A d \in Devs : devices[d].status \subseteq Buttons
    /\ gap \in BOOLEAN
    /\ Len(window) <= 2
    /\ pc = "handle" => i \in 1..(queue_size + 1)

\* ---------------------------------------------------------------- claims
IsFake(c) == c.fn = "XTestFakeButtonEvent"
IsCmd(c) == c.fn = "run_cmd"

\* the step about to be taken handles queue[i]
Handling == pc = "handle" /\ i <= queue_size
\* the step about to be taken handles the last event of the iteration
LastHandling == pc = "handle" /\ i = queue_size
\* every event of the iteration has been handled, line 300 is next
IterationDone == pc = "handle" /\ i > queue_size

\* the two raw events of the window classify to a pair the spec merges
WindowPair ==
    Len(window) = 2 /\ SpecPair(get(window[1]).ev, get(window[2]).ev)

\* C1: handling a core press that carries no device makes exactly one call,
\* XAllowEvents(ReplayPointer), and leaves every device's held set and grab
\* state alone; by the end of the iteration every such event of the queue
\* has been replayed.
C1_CorePressReplayed ==
    [][ /\ (Handling /\ queue[i].core /\ queue[i].is_press /\ queue[i].dev = NoDev)
            => /\ out' = <<XAllowEvents("ReplayPointer", queue[i].t)>>
               /\ devices' = devices
               /\ grabbed' = grabbed
        /\ LastHandling
            => CountArg(log', "ReplayPointer") =
                 Cardinality({k \in 1..queue_size :
                                 queue[k].core /\ queue[k].dev = NoDev}) ]_vars

C1_Witness ==
    /\ IterationDone
    /\ Len(window) = 2
    /\ IsCoreRaw(window[1]) /\ IsCoreRaw(window[2])
    /\ CountArg(log, "ReplayPointer") = 2
    /\ out = <<XAllowEvents("ReplayPointer", window[2].time)>>

\* C2: when the two buffered events agree on is_press, button and time and
\* one is core without device and the other a device event without the core
\* flag, in either order, the merge step leaves one event in the queue, that
\* event's handling is the only one of the iteration, and the iteration runs
\* at most one command, the press command of the button.
C2_PairMergedOnce ==
    [][ /\ (pc = "pull" /\ pc' = "handle" /\ queue_size = 2
                /\ SpecPair(queue[1], queue[2]))
            => queue_size' = 1 /\ Len(queue') = 1
        /\ (Handling /\ WindowPair)
            => /\ i = 1 /\ queue_size = 1
               /\ CountFn(log', {"run_cmd"}) <= 1
               /\ \A k \in 1..Len(log') :
                     IsCmd(log'[k]) =>
                        /\ log'[k].button = window[1].button
                        /\ log'[k].button \in DOMAIN commands
                        /\ log'[k].arg = commands[log'[k].button].press ]_vars

C2_Witness ==
    /\ IterationDone
    /\ WindowPair
    /\ IsDeviceRaw(window[1]) /\ IsCoreRaw(window[2])
    /\ CountFn(log, {"run_cmd"}) = 1

\* C3: handling a merged event (core press carrying a device) first makes a
\* fake-input call, then XAllowEvents(AsyncBoth), never a replay; then the
\* press command of a bound button runs and, in dynamic mode, the device's
\* held set gains the button and the device is grabbed if nothing was held.
C3_MergedFakeThenAllowBoth ==
    [][ (Handling /\ queue[i].core /\ queue[i].is_press /\ queue[i].dev # NoDev)
          => LET ev == queue[i]
                 rest == SubSeq(out', 3, Len(out'))
             IN /\ Len(out') >= 2
                /\ IsFake(out'[1])
                /\ out'[2] = XAllowEvents("AsyncBoth", ev.t)
                /\ CountArg(out', "ReplayPointer") = 0
                /\ CountFn(out', {"XAllowEvents"}) = 1
                /\ CountFn(out', {"XTestFakeButtonEvent"}) = 1
                /\ (ev.button \in DOMAIN commands) =>
                      /\ CountFn(rest, {"run_cmd"}) = 1
                      /\ rest[1] = run_cmd(ev.button, commands[ev.button].press)
                /\ (ev.button \notin DOMAIN commands) => CountFn(rest, {"run_cmd"}) = 0
                /\ ~always_grab =>
                      /\ ev.button \in devices'[ev.dev].status
                      /\ grabbed'[ev.dev]
                      /\ (devices[ev.dev].status = {})
                            <=> (CountFn(rest, {"XGrabDevice", "XUngrabDevice"}) = 1
                                 /\ rest[Len(rest)] = XGrabDevice(ev.dev)) ]_vars

C3_Witness ==
    /\ IterationDone
    /\ WindowPair
    /\ ~always_grab
    /\ Len(out) = 4
    /\ IsFake(out[1])
    /\ out[2] = XAllowEvents("AsyncBoth", window[1].time)
    /\ IsCmd(out[3])
    /\ out[4].fn = "XGrabDevice"

\* C4: in dynamic mode, when the release of B on D is handled and the last
\* press handled on D was a press of B, B is not in D's held set afterwards,
\* and the ungrab calls on D since that press, this release included, number
\* one if B was the only held button and none if other buttons remain held.
C4_PressReleasePair ==
    [][ (Handling /\ ~always_grab /\ queue[i].dev # NoDev /\ ~queue[i].is_press
            /\ track[queue[i].dev].button = queue[i].button)
          => LET d == queue[i].dev
                 n == track[d].ungrabs + Ungrabs(d, out')
             IN /\ queue[i].button \notin devices'[d].status
                /\ (devices[d].status = {queue[i].button}) => n = 1
                /\ (devices'[d].status # {}) => n = 0 ]_vars

C4_Witness ==
    /\ ~always_grab
    /\ IterationDone
    /\ Len(window) = 2
    /\ IsDeviceRaw(window[1]) /\ IsDeviceRaw(window[2])
    /\ get(window[1]).ev.is_press /\ ~get(window[2]).ev.is_press
    /\ get(window[1]).ev.dev = get(window[2]).ev.dev
    /\ window[1].button = window[2].button
    /\ devices[get(window[2]).ev.dev].status = {}
    /\ CountCall(log, XGrabDevice(get(window[2]).ev.dev)) = 1
    /\ CountCall(log, XUngrabDevice(get(window[2]).ev.dev)) = 1

\* C5: in dynamic mode the last grab/ungrab call on a device was a grab
\* exactly when the device's held set is non-empty.
C5_GrabbedIffHeld ==
    ~always_grab => \A d \in Devs : grabbed[d] <=> (devices[d].status # {})

C5_Witness ==
    /\ ~always_grab
    /\ IterationDone
    /\ \E d, e \in Devs :
          /\ grabbed[d] /\ Cardinality(devices[d].status) = 2
          /\ ~grabbed[e] /\ devices[e].status = {}
          /\ CountCall(out, XUngrabDevice(e)) = 1

\* C6: in always-grab mode grab_buttons grabs every device exactly once and
\* installs no passive device button grab; after it no step makes a grab or
\* ungrab call or changes a grab, while a device event of a bound button
\* still runs its command.
C6_AlwaysGrabBypass ==
    [][ always_grab =>
          /\ pc = "grab_buttons"
               => /\ \A d \in Devs : CountCall(out', XGrabDevice(d)) = 1
                  /\ CountFn(out', {"XGrabDevice"}) = NumDevices
                  /\ CountFn(out', {"XGrabDeviceButton", "XUngrabDevice"}) = 0
                  /\ \A d \in Devs : grabbed'[d]
          /\ pc # "grab_buttons"
               => /\ CountFn(out', {"XGrabDevice", "XUngrabDevice",
                                    "XGrabDeviceButton"}) = 0
                  /\ grabbed' = grabbed
          /\ (Handling /\ queue[i].dev # NoDev /\ queue[i].button \in DOMAIN commands)
               => CountFn(out', {"run_cmd"}) = 1 ]_vars

C6_Witness ==
    /\ always_grab
    /\ IterationDone
    /\ Len(window) = 2
    /\ IsDeviceRaw(window[1]) /\ IsDeviceRaw(window[2])
    /\ window[1].type # window[2].type
    /\ CountFn(log, {"run_cmd"}) = 2
    /\ \A d \in Devs : grabbed[d]

\* the raw event r matches neither ButtonPress nor a registered device type
Unrecognized(r) ==
    /\ r # NoRaw
    /\ r.type # ButtonPress
    /\ \A d \in Devs : r.type # devices[d].press /\ r.type # devices[d].release

\* C7: a step that pulls a raw event whose type is neither ButtonPress nor a
\* registered device's press or release type leaves the queue as it was (the
\* event is never handled), makes no call, runs no command and changes no
\* held set and no grab.
C7_UnknownDropped ==
    [][ Unrecognized(raw')
          => /\ queue' = queue
             /\ queue_size' = queue_size
             /\ pc' = "pull"
             /\ out' = <<>>
             /\ log' = log
             /\ window' = window
             /\ devices' = devices
             /\ grabbed' = grabbed
             /\ track' = track ]_vars

C7_Witness ==
    /\ Unrecognized(raw)
    /\ queue_size = 1
    /\ \E d \in Devs : devices[d].status # {}

\* core presses with time t among the raw events rs
CoresAt(rs, t) == Cardinality({k \in 1..Len(rs) : IsCoreRaw(rs[k]) /\ rs[k].time = t})
\* XAllowEvents calls with time t among the calls cs
AllowsAt(cs, t) ==
    Cardinality({k \in 1..Len(cs) : cs[k].fn = "XAllowEvents" /\ cs[k].time = t})

\* C8: the XAllowEvents calls of an iteration never outnumber the core
\* presses it pulled, time by time, and once its last event is handled, and
\* whenever the dispatcher is about to block in XNextEvent, they are as
\* many: every core press pulled has been resolved exactly once.
C8_CoreResolvedOnce ==
    /\ \A t \in Times : AllowsAt(log, t) <= CoresAt(window, t)
    /\ (IterationDone \/ (pc = "pull" /\ queue_size = 0))
          => \A t \in Times : AllowsAt(log, t) = CoresAt(window, t)

C8_Witness ==
    /\ IterationDone
    /\ Len(window) = 2
    /\ IsDeviceRaw(window[1]) /\ IsCoreRaw(window[2])
    /\ window[1].time # window[2].time
    /\ AllowsAt(log, window[2].time) = 1
    /\ CountArg(log, "ReplayPointer") = 1

\* C9: a press or release produced by registered device D is classified as
\* an event of D: right after it is pulled, the event put in the queue has
\* dev = D.
C9_AttributedToProducer ==
    (pc = "pull" /\ raw # NoRaw /\ IsDeviceRaw(raw) /\ queue_size >= 1)
       => queue[queue_size].dev = raw.deviceid

\* C10 as stated: handling a merged core press synthesizes a button press
\* (is_press True) for the button, then allows in AsyncBoth mode.
C10_FakePressBeforeAllow ==
    [][ (Handling /\ queue[i].core /\ queue[i].is_press /\ queue[i].dev # NoDev)
          => /\ Len(out') >= 2
             /\ out'[1] = XTestFakeButtonEvent(queue[i].button, TRUE)
             /\ out'[2].fn = "XAllowEvents" /\ out'[2].arg = "AsyncBoth" ]_vars

\* C10 amended: handling a merged core press synthesizes a button release
\* (is_press False) for the button on the core pointer, and does so before
\* it allows in AsyncBoth mode.
C10_FakeReleaseBeforeAllow ==
    [][ (Handling /\ queue[i].core /\ queue[i].is_press /\ queue[i].dev # NoDev)
          => \E k, m \in 1..Len(out') :
                /\ k < m
                /\ out'[k] = XTestFakeButtonEvent(queue[i].button, FALSE)
                /\ out'[m].fn = "XAllowEvents" /\ out'[m].arg = "AsyncBoth"
                /\ \A n \in 1..Len(out') :
                      IsFake(out'[n]) => n = k ]_vars

C10_Witness ==
    /\ IterationDone
    /\ WindowPair
    /\ IsDeviceRaw(window[1])
    /\ Len(out) >= 2
    /\ out[1] = XTestFakeButtonEvent(window[1].button, FALSE)
    /\ out[2] = XAllowEvents("AsyncBoth", window[1].time)

\* the merge step is about to merge the two buffered events
Merging ==
    pc = "pull" /\ queue_size = 2 /\ SpecPair(queue[1], queue[2])
\* the device of the device event among the two buffered events
PairDev == IF queue[1].dev # NoDev THEN queue[1].dev ELSE queue[2].dev

\* C11 as stated: after a merge, in either order, the one event left carries
\* the device and has its core flag cleared.
C11_MergedCoreCleared ==
    [][ (Merging /\ pc' = "handle")
          => /\ queue_size' = 1
             /\ queue'[1].dev = PairDev
             /\ queue'[1].core = FALSE ]_vars

\* C11 amended: after a merge, in either order, the one event left carries
\* the device and has its core flag set; button, time and is_press are those
\* of the pair.
C11_MergedKeepsCore ==
    [][ (Merging /\ pc' = "handle")
          => /\ queue_size' = 1
             /\ queue'[1] = [is_press |-> queue[1].is_press,
                             button |-> queue[1].button,
                             dev |-> PairDev,
                             core |-> TRUE,
                             t |-> queue[1].t] ]_vars

C11_Witness ==
    /\ pc = "handle" /\ i = 1 /\ queue_size = 1
    /\ WindowPair
    /\ IsDeviceRaw(window[1]) /\ IsCoreRaw(window[2])
    /\ queue[1].core /\ queue[1].dev = get(window[1]).ev.dev

\* the step about to be taken is a pass of the pull loop
Pulling(r) == pc = "pull" /\ r # NoRaw

\* C12: XNextEvent is called with an empty buffer without asking XPending
\* (it may block), and with one event buffered only after XPending answered
\* true; when XPending answers false with one event buffered, that event
\* goes to the handlers alone and unchanged, with no merge.
C12_SecondPullOnlyIfPending ==
    [][ /\ Pulling(raw')
            => /\ queue_size < 2
               /\ (queue_size = 0) => xpending' = "none"
               /\ (queue_size = 1) => xpending' = "true"
        /\ (pc = "pull" /\ pc' = "handle")
            => /\ queue_size \in {1, 2}
               /\ (queue_size = 1)
                     => /\ xpending' = "false"
                        /\ queue' = queue
                        /\ queue_size' = 1
               /\ (queue_size = 2) => xpending' = "none" ]_vars

C12_Witness ==
    /\ IterationDone
    /\ xpending = "false"
    /\ Len(window) = 1 /\ queue_size = 1
    /\ IsDeviceRaw(window[1])
    /\ CountFn(log, {"run_cmd"}) = 1

\* an iteration that handled a core press alone ends
LoneEnds == pc = "handle" /\ pc' = "pull" /\ lone'.stage = "open"
\* the device press of the core press handled alone by the previous
\* iteration is about to be handled
SplitHandling == Handling /\ i = 1 /\ lone.stage = "split"

\* C13 as stated: a core press handled alone in one iteration and its device
\* press pulled first in the next are not merged, and the press command runs
\* twice for the two.
C13_SplitPairRunsTwice ==
    [][ SplitHandling
          => lone.cmds + CountCall(out', run_cmd(lone.button,
                                      commands[lone.button].press)) = 2 ]_vars

\* C13 amended: a core press handled alone in one iteration and its device
\* press pulled first in the next are not merged: the core press is replayed
\* and runs no command, and the press command runs once, for the device
\* press.
C13_SplitPairRunsOnce ==
    [][ /\ LoneEnds
            => /\ log = <<XAllowEvents("ReplayPointer", lone'.time)>>
               /\ lone'.cmds = 0
        /\ SplitHandling
            => /\ lone.cmds + CountFn(out', {"run_cmd"}) = 1
               /\ CountCall(out', run_cmd(lone.button,
                                          commands[lone.button].press)) = 1
               /\ CountArg(out', "ReplayPointer") = 0 ]_vars

C13_Witness ==
    /\ IterationDone
    /\ lone.stage = "split" /\ lone.cmds = 0
    /\ Len(window) = 1
    /\ xpending = "false"
    /\ window[1].button = lone.button /\ window[1].time = lone.time
    /\ log = <<run_cmd(lone.button, commands[lone.button].press)>>

\* C14: a process that parse_args ended has installed no grab, and it ended
\* with EXIT_SUCCESS if there was no argument at all and with EXIT_FAILURE
\* for every other argument list.
C14_MalformedExitsFailure ==
    (pc = "exit")
       => /\ out = <<>>
          /\ \A d \in Devs : ~grabbed[d]
          /\ (argc = 1) => exit_status = "EXIT_SUCCESS"
          /\ (argc # 1) => exit_status = "EXIT_FAILURE"

\* the pull loop has ended with two events buffered, line 296 is next
Combining == pc = "pull" /\ pc' = "handle" /\ queue_size = 2

\* C15: with two events buffered, combine succeeds exactly when they agree
\* on is_press, button and time and one is a core event without a device and
\* the other a device event without the core flag; in the other order it
\* succeeds in the same cases and gives the same merged event; when it fails
\* both events stay as they were pulled and are handled one after the other
\* in the order they arrived.
C15_CombineIffPair ==
    [][ /\ Combining
            => LET ab == combine(queue[1], queue[2])
                   ba == combine(queue[2], queue[1])
               IN /\ ab.ok <=> SpecPair(queue[1], queue[2])
                  /\ ba.ok <=> ab.ok
                  /\ ab.ok => ab.ev = ba.ev /\ queue' = <<ab.ev>>
                  /\ ~ab.ok => /\ queue' = queue /\ queue_size' = 2 /\ i' = 1
                               /\ \A k \in 1..2 : queue[k] = get(window[k]).ev
        /\ (Handling /\ queue_size = 2)
            => /\ out' = handle(get(window[i]).ev).calls
               /\ queue' = queue /\ i' = i + 1 ]_vars

\* a core press and a device press of the same button with different
\* timestamps: the first has been handled alone, the second is next
C15_Witness ==
    /\ pc = "handle" /\ i = 2 /\ queue_size = 2
    /\ CorePlain(queue[1]) /\ DevicePlain(queue[2])
    /\ queue[1].is_press /\ queue[2].is_press
    /\ queue[1].button = queue[2].button /\ queue[1].t # queue[2].t
    /\ out = <<XAllowEvents("ReplayPointer", queue[1].t)>>

\* the buttons held on device d that have no binding
UnboundHeld(d) == devices[d].status \ DOMAIN commands

\* C16 as stated: in dynamic mode a device with no bound button in its held
\* set is not grabbed.
C16_GrabOnlyWhileBoundHeld ==
    (~always_grab /\ pc \in {"pull", "handle"})
       => \A d \in Devs :
             (devices[d].status \cap DOMAIN commands = {}) => ~grabbed[d]

\* C16 amended: in dynamic mode the grab of a device lasts as long as any
\* button is held on it, bound or not: a device that holds an unbound button
\* is grabbed, also when no bound button is held, and a device that holds no
\* button at all is not grabbed.
C16_GrabWhileAnyHeld ==
    (~always_grab /\ pc \in {"pull", "handle"})
       => \A d \in Devs :
             /\ UnboundHeld(d) # {} => grabbed[d]
             /\ (UnboundHeld(d) = {} /\ devices[d].status \cap DOMAIN commands = {})
                   => ~grabbed[d]

\* the bound button of a device has just been released while an unbound one
\* is still held: no ungrab call was made and the device stays grabbed
C16_Witness ==
    /\ ~always_grab
    /\ IterationDone /\ queue_size = 1
    /\ DevicePlain(queue[1]) /\ ~queue[1].is_press
    /\ queue[1].button \in DOMAIN commands
    /\ UnboundHeld(queue[1].dev) # {}
    /\ devices[queue[1].dev].status \cap DOMAIN commands = {}
    /\ grabbed[queue[1].dev]
    /\ CountFn(log, {"XUngrabDevice"}) = 0

\* the step about to be taken handles an event that carries a device
HandlingDevice == Handling /\ queue[i].dev # NoDev

\* C17: handling a device event of a bound button runs exactly one command,
\* the press command of the binding for a press and its release command for
\* a release; for an unbound button no command runs and the process goes on;
\* in dynamic mode the held set gains or loses the button and the device is
\* grabbed or ungrabbed by the same rule whether or not the button is bound.
C17_OneCommandPerBoundEvent ==
    [][ HandlingDevice
          => LET ev == queue[i]
                 held == devices[ev.dev].status
             IN /\ (ev.button \in DOMAIN commands)
                     => /\ CountFn(out', {"run_cmd"}) = 1
                        /\ CountCall(out', run_cmd(ev.button,
                              IF ev.is_press THEN commands[ev.button].press
                                             ELSE commands[ev.button].release)) = 1
                /\ (ev.button \notin DOMAIN commands)
                     => /\ CountFn(out', {"run_cmd"}) = 0
                        /\ pc' = "handle" /\ exit_status' = "none"
                /\ ~always_grab
                     => /\ ev.is_press
                           => /\ devices'[ev.dev].status = held \cup {ev.button}
                              /\ CountCall(out', XGrabDevice(ev.dev))
                                    = IF held = {} THEN 1 ELSE 0
                              /\ CountFn(out', {"XUngrabDevice"}) = 0
                        /\ ~ev.is_press
                           => /\ devices'[ev.dev].status = held \ {ev.button}
                              /\ CountCall(out', XUngrabDevice(ev.dev))
                                    = IF held \ {ev.button} = {} THEN 1 ELSE 0
                              /\ CountFn(out', {"XGrabDevice"}) = 0 ]_vars

\* the release of a bound button has run its release command and no ungrab,
\* another button being held; an event of an unbound button is next
C17_Witness ==
    /\ ~always_grab
    /\ pc = "handle" /\ i = 2 /\ queue_size = 2
    /\ DevicePlain(queue[1]) /\ ~queue[1].is_press
    /\ queue[1].button \in DOMAIN commands
    /\ out = <<run_cmd(queue[1].button, commands[queue[1].button].release)>>
    /\ DevicePlain(queue[2]) /\ queue[2].button \notin DOMAIN commands

\* C18: handling an event that carries device D changes neither the held set
\* nor the grab state of any other device and makes no call on one; no step
\* after parse_args changes the binding table; two buffered device events of
\* different devices are never merged.
C18_OtherDevicesUntouched ==
    [][ /\ HandlingDevice
            => \A d \in Devs \ {queue[i].dev} :
                  /\ devices'[d] = devices[d]
                  /\ grabbed'[d] = grabbed[d]
                  /\ \A k \in 1..Len(out') : out'[k].dev # d
        /\ (pc # "parse_args") => commands' = commands
        /\ (Combining /\ queue[1].dev # NoDev /\ queue[2].dev # NoDev
                      /\ queue[1].dev # queue[2].dev)
            => queue' = queue /\ queue_size' = 2 ]_vars

\* two presses of the same button at the same time by different devices
\* share a window: the first has grabbed its device, the other device is
\* still free and its event is next
C18_Witness ==
    /\ ~always_grab
    /\ pc = "handle" /\ i = 2 /\ queue_size = 2
    /\ DevicePlain(queue[1]) /\ DevicePlain(queue[2])
    /\ queue[1].dev # queue[2].dev
    /\ queue[1].is_press /\ queue[2].is_press
    /\ queue[1].button = queue[2].button /\ queue[1].t = queue[2].t
    /\ grabbed[queue[1].dev] /\ ~grabbed[queue[2].dev]
    /\ devices[queue[2].dev].status = {}

\* the step about to be taken handles a release carrying a device in
\* dynamic mode
HandlingRelease == HandlingDevice /\ ~always_grab /\ ~queue[i].is_press

\* C19 as stated: in dynamic mode handling a release on a device whose held
\* set is already empty makes no ungrab call.
C19_NoUngrabWhenNothingHeld ==
    [][ (HandlingRelease /\ devices[queue[i].dev].status = {})
          => CountFn(out', {"XUngrabDevice"}) = 0 ]_vars

\* C19 amended: in dynamic mode handling a release calls ungrab on its
\* device exactly when the held set is empty once the button is erased, and
\* so also when it was empty before; it never does while another button
\* stays held.
C19_UngrabWhenEmptyAfterErase ==
    [][ HandlingRelease
          => LET d == queue[i].dev
                 held == devices[d].status
             IN /\ (held \ {queue[i].button} # {})
                     => CountFn(out', {"XUngrabDevice"}) = 0
                /\ (held \ {queue[i].button} = {})
                     => CountCall(out', XUngrabDevice(d)) = 1
                /\ (held = {})
                     => /\ CountCall(out', XUngrabDevice(d)) = 1
                        /\ devices'[d].status = {}
                        /\ ~grabbed'[d] ]_vars

\* two releases by one device in one iteration have each called ungrab, the
\* second on an empty held set, with no grab call between them
C19_Witness ==
    /\ ~always_grab
    /\ IterationDone /\ queue_size = 2
    /\ DevicePlain(queue[1]) /\ DevicePlain(queue[2])
    /\ ~queue[1].is_press /\ ~queue[2].is_press
    /\ queue[1].dev = queue[2].dev
    /\ CountCall(log, XUngrabDevice(queue[1].dev)) = 2
    /\ CountFn(log, {"XGrabDevice"}) = 0

\* C20: a pulled event that get() does not recognise takes no slot of the
\* queue and the pull loop goes on; a core press and its device press pulled
\* with such events between them end up buffered together and are merged;
\* the queue never holds more than two events, all of them classified, and
\* is empty whenever an iteration starts.
C20_UnknownTakesNoSlot ==
    [][ /\ Unrecognized(raw')
            => /\ queue' = queue /\ queue_size' = queue_size
               /\ window' = window /\ pc' = "pull"
        /\ (Combining /\ gap /\ SpecPair(queue[1], queue[2]))
            => /\ queue_size' = 1
               /\ queue'[1].dev = PairDev /\ queue'[1].core
               /\ queue'[1].button = queue[1].button /\ queue'[1].t = queue[1].t
        /\ queue_size' <= 2 /\ Len(queue') = queue_size'
        /\ \A k \in 1..Len(queue') : queue'[k] # NoEvent
        /\ (pc # "pull" /\ pc' = "pull") => queue' = <<>> /\ queue_size' = 0 ]_vars

\* a core press and its device press were pulled with an unrecognised event
\* between them and have been merged into the one event about to be handled
C20_Witness ==
    /\ pc = "handle" /\ i = 1 /\ queue_size = 1
    /\ gap
    /\ WindowPair
    /\ IsCoreRaw(window[1]) /\ IsDeviceRaw(window[2])
    /\ queue[1].core /\ queue[1].dev # NoDev /\ queue[1].is_press

====
